---- MODULE Spec2Model ----
(***************************************************************************)
(* Model of serialization++.h: the Property List walk of serialize and     *)
(* deserialize (detail::getData / detail::setData), and JsonArchive's      *)
(* store / retrieve / saveToFile / loadFromFile over a json::JSON tree.    *)
(***************************************************************************)
EXTENDS Integers, Sequences, FiniteSets

\* ------------------------------------------------------------------------
\* Bounds
\* ------------------------------------------------------------------------
MaxInt == 1
MaxCalls == 2

IntVals == 0..MaxInt
StrVals == {"", "ab"}

\* An int member of a default-initialised object (`T result;`) that has not
\* been assigned yet.  It is outside IntVals; ResolveSet replaces it by every
\* possible int when the object is handed to the caller.
Indeterminate == -1

\* ------------------------------------------------------------------------
\* Client types.  A composite type is one that carries PROPERTIES
\* (SERIALIZE(STORE(&T::member, "name"), ...)).
\* ------------------------------------------------------------------------
PrimitiveTypes == {"int", "string"}
CompositeTypes == {"Point", "Line", "Shape", "Scene", "Dup"}

\* detail::makeProperty / detail::Property: member pointer, name, Type.
makeProperty(m, n, t) == [member |-> m, name |-> n, type |-> t]

\* The tuple built by the SERIALIZE macro, in declared order.
PROPERTIES(T) ==
  CASE T = "Point" -> << makeProperty("x", "x", "int"),
                         makeProperty("y", "y", "int") >>
    [] T = "Line"  -> << makeProperty("a", "a", "Point"),
                         makeProperty("b", "b", "Point") >>
    [] T = "Shape" -> << makeProperty("title", "label", "string"),
                         makeProperty("center", "origin", "Point"),
                         makeProperty("sides", "n", "int") >>
    [] T = "Scene" -> << makeProperty("shape", "shape", "Shape") >>
    [] T = "Dup"   -> << makeProperty("p", "k", "int"),
                         makeProperty("q", "k", "int") >>
    [] OTHER       -> << >>

\* detail::has_properties<T>
has_properties(T) == T \in CompositeTypes

\* Members of T that are not named in PROPERTIES (all of type int).
Unlisted(T) == IF T = "Shape" THEN {"cache"} ELSE {}

\* std::tuple_size<decltype(T::PROPERTIES)>::value
tuple_size(T) == Len(PROPERTIES(T))

PointVals == [x : IntVals, y : IntVals]
LineVals  == [a : PointVals, b : PointVals]
ShapeVals == [title : StrVals, center : PointVals, sides : IntVals, cache : IntVals]
SceneVals == [shape : ShapeVals]
DupVals   == [p : IntVals, q : IntVals]

\* The values of type T the callers pass in.
Values(T) ==
  CASE T = "int"    -> IntVals
    [] T = "string" -> StrVals
    [] T = "Point"  -> PointVals
    [] T = "Line"   -> LineVals
    [] T = "Shape"  -> ShapeVals
    [] T = "Scene"  -> SceneVals
    [] T = "Dup"    -> DupVals

\* `T result;` : ints indeterminate, strings empty, members default-initialised.
Default(T) ==
  CASE T = "Point" -> [x |-> Indeterminate, y |-> Indeterminate]
    [] T = "Line"  -> [a |-> [x |-> Indeterminate, y |-> Indeterminate],
                       b |-> [x |-> Indeterminate, y |-> Indeterminate]]
    [] T = "Shape" -> [title |-> "",
                       center |-> [x |-> Indeterminate, y |-> Indeterminate],
                       sides |-> Indeterminate, cache |-> Indeterminate]
    [] T = "Scene" -> [shape |-> [title |-> "",
                       center |-> [x |-> Indeterminate, y |-> Indeterminate],
                       sides |-> Indeterminate, cache |-> Indeterminate]]
    [] T = "Dup"   -> [p |-> Indeterminate, q |-> Indeterminate]

\* The objects of type T that agree with o wherever o is determinate.
RECURSIVE Compatible(_, _, _)
Compatible(T, o, v) ==
  /\ \A i \in 1..tuple_size(T) :
       LET p == PROPERTIES(T)[i] IN
         CASE p.type = "int"    -> o[p.member] = Indeterminate \/ o[p.member] = v[p.member]
           [] p.type = "string" -> o[p.member] = v[p.member]
           [] OTHER             -> Compatible(p.type, o[p.member], v[p.member])
  /\ \A m \in Unlisted(T) : o[m] = Indeterminate \/ o[m] = v[m]

ResolveSet(T, o) == { v \in Values(T) : Compatible(T, o, v) }

\* ------------------------------------------------------------------------
\* json::JSON (json.hpp): the value tree used as JsonArchive::storage.
\* ------------------------------------------------------------------------
Null        == [cls |-> "Null", val |-> 0]
Integral(i) == [cls |-> "Integral", val |-> i]
String(s)   == [cls |-> "String", val |-> s]
Object(m)   == [cls |-> "Object", val |-> m]

Keys(j) == IF j.cls = "Object" THEN DOMAIN j.val ELSE {}
HasKey(j, name) == name \in Keys(j)

\* JSON::operator[](key) = v : the tree becomes an object and key maps to v.
Subscript(j, name, v) ==
  Object([k \in Keys(j) \cup {name} |-> IF k = name THEN v ELSE j.val[k]])

\* const JSON::at(key): the entry, or a failure when there is none.
at(j, name) ==
  IF HasKey(j, name) THEN [threw |-> FALSE, err |-> "", val |-> j.val[name]]
  ELSE [threw |-> TRUE, err |-> "missing key", val |-> Null]

ToInt(j) ==
  IF j.cls = "Integral" THEN [threw |-> FALSE, err |-> "", val |-> j.val]
  ELSE [threw |-> TRUE, err |-> "type mismatch", val |-> 0]

ToString(j) ==
  IF j.cls = "String" THEN [threw |-> FALSE, err |-> "", val |-> j.val]
  ELSE [threw |-> TRUE, err |-> "type mismatch", val |-> ""]

\* JSON(value): the leaf constructed from an int or a std::string.
Leaf(T, value) == IF T = "int" THEN Integral(value) ELSE String(value)

\* operator<<(ostream, JSON) and JSON::Load(text).
EmptyText == [empty |-> TRUE, doc |-> Null]
Dump(j) == [empty |-> FALSE, doc |-> j]
Load(text) == IF text.empty THEN Null ELSE text.doc

\* ------------------------------------------------------------------------
\* JsonArchive.  Each method is given the archive's storage and yields the
\* storage after the call together with the method's outcome.
\* ------------------------------------------------------------------------
getStorage(storage) == storage
setStorage(aStorage) == aStorage

\* A store that keeps an entry that is already there (insert without
\* overwrite).
storePrimitiveInsert(storage, T, name, value) ==
  IF HasKey(storage, name) THEN storage
  ELSE Subscript(storage, name, Leaf(T, value))

\* IF_NOT_SERIALIZABLE store: storage[name] = value
storePrimitive(storage, T, name, value) == Subscript(storage, name, Leaf(T, value))

\* A composite store that writes the member's entries into the archive itself.
storeCompositeFlat(storage, name, sub) ==
  Object([k \in Keys(storage) \cup Keys(sub) |->
            IF k \in Keys(sub) THEN sub.val[k] ELSE storage.val[k]])

\* IF_SERIALIZABLE store: storage[name] = serialize<JsonArchive>(value).getStorage(),
\* where sub is the archive serialize returned.
storeComposite(storage, name, sub) == Subscript(storage, name, getStorage(sub))

\* A primitive retrieve that answers a missing key with a default value.
retrievePrimitiveDefault(storage, T, name) ==
  LET e == at(storage, name)
      c == IF T = "int" THEN ToInt(e.val) ELSE ToString(e.val)
  IN IF e.threw
     THEN [storage |-> storage, threw |-> FALSE, err |-> "",
           val |-> IF T = "int" THEN 0 ELSE ""]
     ELSE [storage |-> storage, threw |-> c.threw, err |-> c.err, val |-> c.val]

\* A primitive retrieve that looks the key up with operator[], which creates
\* the entry when it is missing.
retrievePrimitiveInsert(storage, T, name) ==
  LET e == at(storage, name)
      c == IF T = "int" THEN ToInt(e.val) ELSE ToString(e.val)
      after == IF e.threw THEN Subscript(storage, name, Null) ELSE storage
  IN [storage |-> after, threw |-> e.threw \/ c.threw,
      err |-> IF e.threw THEN e.err ELSE c.err, val |-> c.val]

\* retrieve<int> / retrieve<std::string>
retrievePrimitive(storage, T, name) ==
  LET e == at(storage, name)
      c == IF T = "int" THEN ToInt(e.val) ELSE ToString(e.val)
  IN IF e.threw THEN [storage |-> storage, threw |-> TRUE, err |-> e.err, val |-> 0]
     ELSE [storage |-> storage, threw |-> c.threw, err |-> c.err, val |-> c.val]

\* IF_SERIALIZABLE retrieve, up to the call of deserialize:
\* T result; JsonArchive archive; archive.setStorage(storage.at(name));
retrieveComposite(storage, T, name) ==
  LET e == at(storage, name)
  IN [storage |-> storage, threw |-> e.threw, err |-> e.err,
      archive |-> setStorage(e.val), result |-> Default(T)]

\* ------------------------------------------------------------------------
\* The Property List walk.
\* ------------------------------------------------------------------------
\* A walk that starts one descriptor short of the end of the list.
FirstIterationShort(T) == tuple_size(T) - 2

\* The first template argument of getData / setData in serialize / deserialize.
FirstIteration(T) == tuple_size(T) - 1

Finished == -1

\* A walk that stops before iteration 0.
AfterIterationSkip(iteration) == IF iteration > 1 THEN iteration - 1 ELSE Finished

\* getData<iteration> / setData<iteration>: recurse with iteration - 1 while
\* iteration > 0, stop after iteration 0.
AfterIteration(iteration) == IF iteration > 0 THEN iteration - 1 ELSE Finished

\* A walk that counts the descriptors from the other end of the list.
PropertyIndexAsc(T, iteration) == tuple_size(T) - iteration

\* std::get<iteration>(PROPERTIES): position in the declared list (1-based).
PropertyIndex(T, iteration) == iteration + 1
PropertyAt(T, iteration) == PROPERTIES(T)[PropertyIndex(T, iteration)]

Frame(fn, T, object, archive) ==
  [fn |-> fn, T |-> T, obj |-> object, archive |-> archive,
   iteration |-> FirstIteration(T)]

\* ------------------------------------------------------------------------
\* Files (std::ofstream / std::ifstream).
\* ------------------------------------------------------------------------
Paths == {"data.json", "/nodir/data.json"}
\* A path in a directory that does not exist cannot be opened.
CanOpen(path) == path = "data.json"
NoFile == [exists |-> FALSE, text |-> EmptyText]
File(text) == [exists |-> TRUE, text |-> text]

\* ------------------------------------------------------------------------
\* State
\* ------------------------------------------------------------------------
VARIABLES
  ar,        \* storage of the caller's JsonArchive
  obj,       \* the object the caller passed to deserialize (T &obj)
  stack,     \* activation records of serialize / deserialize, innermost last
  cur,       \* the call of the public interface in progress or last finished
  arg,       \* the value the caller passed to that call
  ret,       \* the value that call returned
  prev,      \* the call before cur
  prevArg,   \* the value passed to prev
  log,       \* archive.store / archive.retrieve calls made by the walk in cur
  written,   \* positions (in PROPERTIES) of obj's members assigned during cur
  failIdx,   \* position of obj's member being retrieved when cur threw
  fs,        \* file contents by path
  calls      \* number of calls made so far

vars == << ar, obj, stack, cur, arg, ret, prev, prevArg, log, written,
           failIdx, fs, calls >>

NoCall == [op |-> "none", T |-> "", name |-> "", path |-> "",
           status |-> "returned", err |-> ""]
Call(op, T, name, path, status, err) ==
  [op |-> op, T |-> T, name |-> name, path |-> path, status |-> status,
   err |-> err]

Nothing == << >>

\* Names the callers store and retrieve under.
KeyNames == {"b", "n"}
\* Names the callers retrieve: the stored ones and one that never is.
RetrieveNames == KeyNames \cup {"x"}
\* Types the callers store directly.
StoreTypes == {"int", "string", "Point", "Dup"}
RetrieveTypes == {"int", "string", "Point", "Line"}

\* The prior state of an object handed to deserialize: every int member c.
Prior(T, c) ==
  LET pt == [x |-> c, y |-> c]
      sh == [title |-> "ab", center |-> pt, sides |-> c, cache |-> c]
  IN CASE T = "Point" -> pt
       [] T = "Line"  -> [a |-> pt, b |-> pt]
       [] T = "Shape" -> sh
       [] T = "Scene" -> [shape |-> sh]
       [] T = "Dup"   -> [p |-> c, q |-> c]

Init ==
  /\ ar = Null
  /\ obj = Nothing
  /\ stack = << >>
  /\ cur = NoCall
  /\ arg = Nothing
  /\ ret = Nothing
  /\ prev = NoCall
  /\ prevArg = Nothing
  /\ log = << >>
  /\ written = {}
  /\ failIdx = 0
  /\ fs = [p \in Paths |-> NoFile]
  /\ calls = 0

\* The caller is between two calls.  A retrieve or a deserialize is the last
\* call of a session: it leaves the archive as it found it, so a call after it
\* meets the state it would have met without it.
Idle ==
  /\ stack = << >> /\ cur.status # "running" /\ calls < MaxCalls
  /\ cur.op \notin {"retrieve", "deserialize"}

\* What every call of the public interface does to the bookkeeping.
Begin(c, a) ==
  /\ cur' = c
  /\ arg' = a
  /\ prev' = cur
  /\ prevArg' = arg
  /\ calls' = calls + 1
  /\ written' = {}
  /\ failIdx' = 0

Top == stack[Len(stack)]
LogEntry(op, T, iteration) ==
  [depth |-> Len(stack), op |-> op, idx |-> PropertyIndex(T, iteration),
   name |-> PropertyAt(T, iteration).name]

\* ---- serialize ---------------------------------------------------------
\* IArchive archive; detail::getData<tuple_size - 1>(obj, archive);
serialize_enter(T, object) == Frame("serialize", T, object, Null)

\* JsonArchive ar = serialize<JsonArchive>(v)
CallSerialize(T, v) ==
  /\ Begin(Call("serialize", T, "", "", "running", ""), v)
  /\ stack' = << serialize_enter(T, v) >>
  /\ log' = << >>
  /\ UNCHANGED << ar, obj, ret, fs >>

\* ar.store<T>(name, v) for composite T: calls serialize<JsonArchive>(v)
CallStoreComposite(T, name, v) ==
  /\ has_properties(T)
  /\ Begin(Call("store", T, name, "", "running", ""), v)
  /\ stack' = << serialize_enter(T, v) >>
  /\ log' = << >>
  /\ UNCHANGED << ar, obj, ret, fs >>

\* ar.store<T>(name, v) for primitive T
CallStorePrimitive(T, name, v) ==
  /\ ~has_properties(T)
  /\ Begin(Call("store", T, name, "", "returned", ""), v)
  /\ ar' = storePrimitive(ar, T, name, v)
  /\ log' = << >>
  /\ UNCHANGED << obj, stack, ret, fs >>

\* doGetData<iteration> on a primitive member: archive.store<Type>(name, value)
GetDataPrimitive ==
  /\ stack # << >> /\ Top.fn = "serialize" /\ Top.iteration # Finished
  /\ LET f == Top
         p == PropertyAt(f.T, f.iteration)
     IN /\ ~has_properties(p.type)
        /\ stack' = [stack EXCEPT ![Len(stack)] =
                       [f EXCEPT !.archive = storePrimitive(f.archive, p.type, p.name,
                                                            f.obj[p.member]),
                                 !.iteration = AfterIteration(f.iteration)]]
        /\ log' = Append(log, LogEntry("store", f.T, f.iteration))
  /\ UNCHANGED << ar, obj, cur, arg, ret, prev, prevArg, written, failIdx, fs, calls >>

\* doGetData<iteration> on a composite member: archive.store<Type> enters
\* serialize<JsonArchive>(value)
GetDataComposite ==
  /\ stack # << >> /\ Top.fn = "serialize" /\ Top.iteration # Finished
  /\ LET f == Top
         p == PropertyAt(f.T, f.iteration)
     IN /\ has_properties(p.type)
        /\ stack' = Append(stack, serialize_enter(p.type, f.obj[p.member]))
        /\ log' = Append(log, LogEntry("store", f.T, f.iteration))
  /\ UNCHANGED << ar, obj, cur, arg, ret, prev, prevArg, written, failIdx, fs, calls >>

\* return archive; out of a nested serialize: the composite store of the
\* enclosing walk assigns storage[name] and the walk goes on.
SerializeReturnNested ==
  /\ Len(stack) > 1 /\ Top.fn = "serialize" /\ Top.iteration = Finished
  /\ LET n == Len(stack) - 1
         f == stack[n]
         p == PropertyAt(f.T, f.iteration)
     IN stack' = [SubSeq(stack, 1, n) EXCEPT ![n] =
                    [f EXCEPT !.archive = storeComposite(f.archive, p.name, Top.archive),
                              !.iteration = AfterIteration(f.iteration)]]
  /\ UNCHANGED << ar, obj, cur, arg, ret, prev, prevArg, log, written, failIdx, fs, calls >>

\* return archive; out of the outermost serialize, to the caller or to the
\* composite store the caller called.
SerializeReturn ==
  /\ Len(stack) = 1 /\ Top.fn = "serialize" /\ Top.iteration = Finished
  /\ ar' = IF cur.op = "store" THEN storeComposite(ar, cur.name, Top.archive)
           ELSE Top.archive
  /\ stack' = << >>
  /\ cur' = [cur EXCEPT !.status = "returned"]
  /\ UNCHANGED << obj, arg, ret, prev, prevArg, log, written, failIdx, fs, calls >>

\* A deserialize that starts from a default-initialised object.
deserialize_reset(T, object, archive) == Frame("deserialize", T, Default(T), archive)

\* ---- deserialize -------------------------------------------------------
\* detail::setData<tuple_size - 1>(obj, archive);
deserialize_enter(T, object, archive) == Frame("deserialize", T, object, archive)

\* An exception leaves every activation record; the caller catches it.
Throw(err) ==
  /\ stack' = << >>
  /\ cur' = [cur EXCEPT !.status = "threw", !.err = err]
  /\ failIdx' = IF stack = << >> THEN 0
                ELSE PropertyIndex(stack[1].T, stack[1].iteration)

\* The outermost activation record of a deserialize call works on the
\* caller's object and on the caller's archive.
OnCallerObject(n) == n = 1 /\ cur.op = "deserialize"

\* T obj = <prior state>; deserialize(ar, obj)
CallDeserialize(T, c) ==
  /\ has_properties(T)
  /\ Begin(Call("deserialize", T, "", "", "running", ""), Prior(T, c))
  /\ obj' = Prior(T, c)
  /\ stack' = << deserialize_enter(T, Prior(T, c), ar) >>
  /\ log' = << >>
  /\ ret' = Nothing
  /\ UNCHANGED << ar, fs >>

\* ar.retrieve<T>(name) for primitive T
CallRetrievePrimitive(T, name) ==
  /\ ~has_properties(T)
  /\ LET r == retrievePrimitive(ar, T, name)
     IN /\ Begin(Call("retrieve", T, name, "", IF r.threw THEN "threw" ELSE "returned",
                      r.err), Nothing)
        /\ ar' = r.storage
        /\ ret' = IF r.threw THEN Nothing ELSE r.val
  /\ log' = << >>
  /\ UNCHANGED << obj, stack, fs >>

\* ar.retrieve<T>(name) for composite T
CallRetrieveComposite(T, name) ==
  /\ has_properties(T)
  /\ LET r == retrieveComposite(ar, T, name)
     IN /\ Begin(Call("retrieve", T, name, "", IF r.threw THEN "threw" ELSE "running",
                      r.err), Nothing)
        /\ ar' = r.storage
        /\ stack' = IF r.threw THEN << >>
                    ELSE << deserialize_enter(T, r.result, r.archive) >>
  /\ ret' = Nothing
  /\ log' = << >>
  /\ UNCHANGED << obj, fs >>

\* doSetData<iteration> on a primitive member:
\* object.*(property.member) = archive.retrieve<Type>(property.name)
SetDataPrimitive ==
  /\ stack # << >> /\ Top.fn = "deserialize" /\ Top.iteration # Finished
  /\ LET n == Len(stack)
         f == Top
         p == PropertyAt(f.T, f.iteration)
         r == retrievePrimitive(f.archive, p.type, p.name)
         o == [f.obj EXCEPT ![p.member] = r.val]
     IN /\ ~has_properties(p.type)
        /\ log' = Append(log, LogEntry("retrieve", f.T, f.iteration))
        /\ ar' = IF OnCallerObject(n) THEN r.storage ELSE ar
        /\ IF r.threw
           THEN /\ Throw(r.err)
                /\ UNCHANGED << obj, written >>
           ELSE /\ stack' = [stack EXCEPT ![n] =
                               [f EXCEPT !.obj = o, !.archive = r.storage,
                                         !.iteration = AfterIteration(f.iteration)]]
                /\ obj' = IF OnCallerObject(n) THEN o ELSE obj
                /\ written' = IF OnCallerObject(n)
                              THEN written \cup {PropertyIndex(f.T, f.iteration)}
                              ELSE written
                /\ UNCHANGED << cur, failIdx >>
  /\ UNCHANGED << arg, ret, prev, prevArg, fs, calls >>

\* doSetData<iteration> on a composite member: archive.retrieve<Type> takes
\* the entry at name and enters deserialize on a default-initialised result
SetDataComposite ==
  /\ stack # << >> /\ Top.fn = "deserialize" /\ Top.iteration # Finished
  /\ LET n == Len(stack)
         f == Top
         p == PropertyAt(f.T, f.iteration)
         r == retrieveComposite(f.archive, p.type, p.name)
     IN /\ has_properties(p.type)
        /\ log' = Append(log, LogEntry("retrieve", f.T, f.iteration))
        /\ ar' = IF OnCallerObject(n) THEN r.storage ELSE ar
        /\ IF r.threw
           THEN Throw(r.err)
           ELSE /\ stack' = Append([stack EXCEPT ![n] = [f EXCEPT !.archive = r.storage]],
                                   deserialize_enter(p.type, r.result, r.archive))
                /\ UNCHANGED << cur, failIdx >>
  /\ UNCHANGED << obj, arg, ret, prev, prevArg, written, fs, calls >>

\* return true; out of a nested deserialize: the composite retrieve returns
\* result, doSetData assigns it to the member and the walk goes on.
DeserializeReturnNested ==
  /\ Len(stack) > 1 /\ Top.fn = "deserialize" /\ Top.iteration = Finished
  /\ LET n == Len(stack) - 1
         f == stack[n]
         p == PropertyAt(f.T, f.iteration)
         o == [f.obj EXCEPT ![p.member] = Top.obj]
     IN /\ stack' = [SubSeq(stack, 1, n) EXCEPT ![n] =
                       [f EXCEPT !.obj = o, !.iteration = AfterIteration(f.iteration)]]
        /\ obj' = IF OnCallerObject(n) THEN o ELSE obj
        /\ written' = IF OnCallerObject(n)
                      THEN written \cup {PropertyIndex(f.T, f.iteration)}
                      ELSE written
  /\ UNCHANGED << ar, cur, arg, ret, prev, prevArg, log, failIdx, fs, calls >>

\* return true; out of the deserialize the caller called.
DeserializeReturn ==
  /\ Len(stack) = 1 /\ Top.fn = "deserialize" /\ Top.iteration = Finished
  /\ cur.op = "deserialize"
  /\ stack' = << >>
  /\ cur' = [cur EXCEPT !.status = "returned"]
  /\ ret' = TRUE
  /\ UNCHANGED << ar, obj, arg, prev, prevArg, log, written, failIdx, fs, calls >>

\* return result; out of the composite retrieve the caller called.  Members
\* of result that were never assigned hold whatever the build left there.
RetrieveReturn ==
  /\ Len(stack) = 1 /\ Top.fn = "deserialize" /\ Top.iteration = Finished
  /\ cur.op = "retrieve"
  /\ stack' = << >>
  /\ cur' = [cur EXCEPT !.status = "returned"]
  /\ ret' \in ResolveSet(cur.T, Top.obj)
  /\ UNCHANGED << ar, obj, arg, prev, prevArg, log, written, failIdx, fs, calls >>

\* ---- files -------------------------------------------------------------
\* std::ofstream file(filepath); file << storage; file.close(); return true;
saveToFile(storage, files, filepath) ==
  [fs |-> IF CanOpen(filepath)
          THEN [files EXCEPT ![filepath] = File(Dump(storage))]
          ELSE files,
   ret |-> TRUE]

\* std::ifstream file(filepath); fileContents{...};
\* storage = json::JSON::Load(fileContents); return true;
loadFromFile(storage, files, filepath) ==
  LET fileContents == IF CanOpen(filepath) /\ files[filepath].exists
                      THEN files[filepath].text ELSE EmptyText
  IN [storage |-> Load(fileContents), ret |-> TRUE]

SaveToFile(path) ==
  /\ Begin(Call("saveToFile", "", "", path, "returned", ""), Nothing)
  /\ LET r == saveToFile(ar, fs, path)
     IN fs' = r.fs /\ ret' = r.ret
  /\ log' = << >>
  /\ UNCHANGED << ar, obj, stack >>

LoadFromFile(path) ==
  /\ Begin(Call("loadFromFile", "", "", path, "returned", ""), Nothing)
  /\ LET r == loadFromFile(ar, fs, path)
     IN ar' = r.storage /\ ret' = r.ret
  /\ log' = << >>
  /\ UNCHANGED << obj, stack, fs >>

\* ------------------------------------------------------------------------
\* The caller: between calls it may make any call of the public interface.
\* JsonArchive ar = serialize<JsonArchive>(v) initialises the caller's archive.
Serialize ==
  /\ Idle /\ cur.op = "none"
  /\ \E T \in CompositeTypes : \E v \in Values(T) : CallSerialize(T, v)

\* JsonArchive ar; ar.store<T>(name, v); ... fills a default-constructed archive.
Store ==
  /\ Idle /\ cur.op \in {"none", "store"}
  /\ \E T \in StoreTypes, name \in KeyNames : \E v \in Values(T) :
       \/ CallStoreComposite(T, name, v)
       \/ CallStorePrimitive(T, name, v)

Deserialize ==
  /\ Idle
  /\ \E T \in CompositeTypes, c \in IntVals : CallDeserialize(T, c)

Retrieve ==
  /\ Idle
  /\ \E T \in RetrieveTypes, name \in RetrieveNames :
       \/ CallRetrievePrimitive(T, name)
       \/ CallRetrieveComposite(T, name)

Save == Idle /\ \E path \in Paths : SaveToFile(path)

LoadFile == Idle /\ \E path \in Paths : LoadFromFile(path)

Next ==
  \/ Serialize
  \/ Store
  \/ GetDataPrimitive
  \/ GetDataComposite
  \/ SerializeReturnNested
  \/ SerializeReturn
  \/ Deserialize
  \/ Retrieve
  \/ SetDataPrimitive
  \/ SetDataComposite
  \/ DeserializeReturnNested
  \/ DeserializeReturn
  \/ RetrieveReturn
  \/ Save
  \/ LoadFile

Spec == Init /\ [][Next]_vars

TypeOK ==
  /\ ar.cls \in {"Null", "Integral", "String", "Object"}
  /\ cur.status \in {"running", "returned", "threw"}
  /\ calls \in 0..MaxCalls

\* ------------------------------------------------------------------------
\* Vocabulary of the properties
\* ------------------------------------------------------------------------
PropIdx(T) == 1..tuple_size(T)
Names(T) == { PROPERTIES(T)[i].name : i \in PropIdx(T) }

\* Every Property List reachable from T has pairwise distinct names.
RECURSIVE UniqueNames(_)
UniqueNames(T) ==
  \A i \in PropIdx(T) :
    /\ \A k \in PropIdx(T) : PROPERTIES(T)[i].name = PROPERTIES(T)[k].name => i = k
    /\ has_properties(PROPERTIES(T)[i].type) => UniqueNames(PROPERTIES(T)[i].type)

\* a and b agree on every listed member, recursively.
RECURSIVE ListedEq(_, _, _)
ListedEq(T, a, b) ==
  IF ~has_properties(T) THEN a = b
  ELSE \A i \in PropIdx(T) :
         LET p == PROPERTIES(T)[i] IN ListedEq(p.type, a[p.member], b[p.member])

\* The tree j is the serialized form of v: one entry per listed name, a leaf
\* for a primitive member and the serialized form of the member otherwise.
RECURSIVE Encodes(_, _, _)
Encodes(T, j, v) ==
  IF T = "int" THEN j.cls = "Integral" /\ j.val = v
  ELSE IF T = "string" THEN j.cls = "String" /\ j.val = v
  ELSE /\ j.cls = "Object"
       /\ DOMAIN j.val = Names(T)
       /\ \A i \in PropIdx(T) :
            LET p == PROPERTIES(T)[i] IN Encodes(p.type, j.val[p.name], v[p.member])

\* Every listed member of o holds what the entry under its name holds.
RECURSIVE Holds(_, _, _)
Holds(T, o, j) ==
  IF T = "int" THEN j.cls = "Integral" /\ j.val = o
  ELSE IF T = "string" THEN j.cls = "String" /\ j.val = o
  ELSE /\ j.cls = "Object"
       /\ \A i \in PropIdx(T) :
            LET p == PROPERTIES(T)[i]
            IN HasKey(j, p.name) /\ Holds(p.type, o[p.member], j.val[p.name])

\* Some name the walk of T needs has no entry in j, at this level or below.
RECURSIVE MissingKey(_, _)
MissingKey(T, j) ==
  \E i \in PropIdx(T) :
    LET p == PROPERTIES(T)[i]
    IN \/ ~HasKey(j, p.name)
       \/ has_properties(p.type) /\ HasKey(j, p.name) /\ MissingKey(p.type, j.val[p.name])

\* Composite members are nested objects and no other key is present.
RECURSIVE Isolated(_, _)
Isolated(T, j) ==
  /\ j.cls = "Object"
  /\ Keys(j) \subseteq Names(T)
  /\ \A i \in PropIdx(T) :
       LET p == PROPERTIES(T)[i]
       IN has_properties(p.type) =>
            HasKey(j, p.name) /\ Isolated(p.type, j.val[p.name])

Level1 == SelectSeq(log, LAMBDA e : e.depth = 1)
Over(op) == cur.op = op /\ cur.status # "running"
Returned(op) == cur.op = op /\ cur.status = "returned"
MinLen == IF Len(stack) < Len(stack') THEN Len(stack) ELSE Len(stack')

\* ------------------------------------------------------------------------
\* C1: round trip.  deserialize of the archive serialize(v) returned, into an
\* object of the same type whose Property Lists have distinct names, ends
\* normally with every listed member equal to v's, recursively; and
\* retrieve<T>(name) right after store<T>(name, x) returns a value equal to x.
C1_RoundTrip ==
  /\ (Over("deserialize") /\ prev.op = "serialize" /\ prev.T = cur.T
        /\ UniqueNames(cur.T))
       => (cur.status = "returned" /\ ListedEq(cur.T, obj, prevArg))
  /\ (Over("retrieve") /\ prev.op = "store" /\ prev.T = cur.T
        /\ prev.name = cur.name /\ UniqueNames(cur.T))
       => (cur.status = "returned" /\ ListedEq(cur.T, ret, prevArg))

C1_Witness ==
  /\ Returned("deserialize") /\ prev.op = "serialize"
  /\ prev.T = "Scene" /\ cur.T = "Scene"
  /\ arg.shape.center.x # prevArg.shape.center.x
  /\ arg.shape.title # prevArg.shape.title

\* C2 as stated: the walk of a completed serialize or deserialize visits the
\* descriptors in declared order, p0 first and p(n-1) last.
C2_DeclaredOrder ==
  (Returned("serialize") \/ Returned("deserialize")) =>
     /\ Len(Level1) = tuple_size(cur.T)
     /\ \A i \in PropIdx(cur.T) : Level1[i].idx = i

\* C2 amended: the walk of a completed serialize (store calls) or deserialize
\* (retrieve calls) visits every descriptor exactly once in reverse declared
\* order, p(n-1) first and p0 last.
C2_ReverseOrder ==
  (Returned("serialize") \/ Returned("deserialize")) =>
     /\ Len(Level1) = tuple_size(cur.T)
     /\ \A i \in PropIdx(cur.T) :
          /\ Level1[i].idx = tuple_size(cur.T) + 1 - i
          /\ Level1[i].name = PROPERTIES(cur.T)[tuple_size(cur.T) + 1 - i].name
          /\ Level1[i].op = (IF cur.op = "serialize" THEN "store" ELSE "retrieve")

C2_Witness ==
  /\ Returned("deserialize") /\ cur.T = "Shape"
  /\ Len(Level1) = 3 /\ Level1[1].name = "n" /\ Level1[3].name = "label"

\* C3: a retrieve of a name that has no entry in the archive ends in a
\* failure and returns nothing, for primitive and composite T; a deserialize
\* that needs such a name, at the top level or in a nested archive, ends in
\* that failure too.
C3_MissingKey ==
  /\ (Over("retrieve") /\ ~HasKey(ar, cur.name))
       => (cur.status = "threw" /\ ret = Nothing)
  /\ (Over("retrieve") /\ has_properties(cur.T) /\ HasKey(ar, cur.name)
        /\ MissingKey(cur.T, ar.val[cur.name]))
       => (cur.status = "threw" /\ ret = Nothing)
  /\ (Over("deserialize") /\ MissingKey(cur.T, ar))
       => (cur.status = "threw" /\ ret = Nothing)

C3_Witness ==
  /\ Over("deserialize") /\ cur.status = "threw" /\ cur.err = "missing key"
  /\ cur.T = "Line" /\ HasKey(ar, "b") /\ ar.val["b"].cls = "Object"
  /\ Len(log) > 1 /\ log[Len(log)].depth = 2

\* C4: saveToFile returns false when the path cannot be opened for writing
\* and loadFromFile returns false when it cannot be opened for reading.
C4_FileStatus ==
  /\ (Over("saveToFile") /\ ~CanOpen(cur.path)) => ret = FALSE
  /\ (Over("loadFromFile") /\ ~(CanOpen(cur.path) /\ fs[cur.path].exists))
       => ret = FALSE

\* C5 as stated: when deserialize fails at descriptor p(k), the members
\* written so far are exactly those of p0..p(k-1).
C5_Prefix ==
  (cur.op = "deserialize" /\ cur.status = "threw") =>
     written = { i \in PropIdx(cur.T) : i < failIdx }

\* C5 amended: when deserialize fails at descriptor p(k), the members written
\* so far are exactly those of p(k+1)..p(n-1), the descriptors declared after
\* the failing one; every other member still holds its value from before the
\* call.
C5_Suffix ==
  (cur.op = "deserialize" /\ cur.status = "threw") =>
     /\ failIdx \in PropIdx(cur.T)
     /\ written = { i \in PropIdx(cur.T) : i > failIdx }
     /\ \A i \in PropIdx(cur.T) \ written :
          obj[PROPERTIES(cur.T)[i].member] = arg[PROPERTIES(cur.T)[i].member]
     /\ \A i \in written :
          Holds(PROPERTIES(cur.T)[i].type, obj[PROPERTIES(cur.T)[i].member],
                ar.val[PROPERTIES(cur.T)[i].name])

C5_Witness ==
  /\ cur.op = "deserialize" /\ cur.status = "threw" /\ cur.T = "Shape"
  /\ failIdx = 2 /\ written = {3} /\ obj.sides # arg.sides

\* C6: a deserialize that completes has assigned to every listed member the
\* value retrieved under its name, and every member that is not listed holds
\* its value from before the call.
C6_Frame ==
  Returned("deserialize") =>
     /\ written = PropIdx(cur.T)
     /\ Holds(cur.T, obj, ar)
     /\ \A m \in Unlisted(cur.T) : obj[m] = arg[m]

C6_Witness ==
  /\ Returned("deserialize") /\ cur.T = "Shape"
  /\ obj.sides # arg.sides /\ obj.title # arg.title
  /\ obj.center.x # arg.center.x /\ obj.cache = arg.cache

\* C7: a composite member is serialized into a newly created archive: while
\* the nested serialize runs no enclosing archive changes, and the result is
\* installed as one nested object under the member's name, so that the
\* archive serialize returns has no key besides the names of the Property
\* List, at every level.
NestedStep ==
  /\ \A i \in 1..MinLen :
       (i < Len(stack') /\ stack[i].fn = "serialize")
          => stack'[i].archive = stack[i].archive
  /\ (Len(stack') = Len(stack) + 1 /\ stack'[Len(stack')].fn = "serialize")
       => stack'[Len(stack')].archive = Null
  /\ (cur.op = "store" /\ cur.status = "running" /\ cur'.status = "running")
       => ar' = ar

C7_Isolation ==
  /\ [][NestedStep]_vars
  /\ [](Returned("serialize") => Isolated(cur.T, ar))

C7_Witness ==
  /\ Returned("serialize") /\ cur.T = "Scene"
  /\ Keys(ar) = {"shape"} /\ Keys(ar.val["shape"].val["origin"]) = {"x", "y"}

\* C8: for a type with distinct names, the archive serialize(v) returns has
\* exactly the names of the Property List as keys; a primitive member's key
\* maps to a leaf holding the member's value and a composite member's key to
\* the serialized form of the member.
C8_Shape ==
  (Returned("serialize") /\ UniqueNames(cur.T)) => Encodes(cur.T, ar, arg)

C8_Witness ==
  /\ Returned("serialize") /\ cur.T = "Line"
  /\ arg.a.x # arg.b.x /\ arg.a.y # arg.a.x
  /\ ar.val["a"].val["x"].val = arg.a.x /\ ar.val["b"].val["x"].val = arg.b.x

\* C9: with two descriptors of the same name serialize completes, the archive
\* has one entry under the name, holding the member of the earliest declared
\* descriptor (the one visited last), and a following deserialize writes that
\* value into both members.
C9_Duplicate ==
  /\ (Over("serialize") /\ cur.T = "Dup") =>
       /\ cur.status = "returned"
       /\ Keys(ar) = {"k"}
       /\ ar.val["k"].cls = "Integral"
       /\ ar.val["k"].val = arg.p
  /\ (Over("deserialize") /\ cur.T = "Dup" /\ prev.op = "serialize" /\ prev.T = "Dup") =>
       /\ cur.status = "returned"
       /\ obj.p = prevArg.p
       /\ obj.q = prevArg.p

C9_Witness ==
  /\ Returned("deserialize") /\ cur.T = "Dup" /\ prev.op = "serialize" /\ prev.T = "Dup"
  /\ prevArg.p # prevArg.q /\ obj.q # arg.q /\ obj.q # prevArg.q

\* C10: serialize (also under a composite store) never changes the object it
\* reads; retrieve and deserialize never change the archive they read, also
\* when they fail, and a nested retrieve leaves the enclosing archive as it
\* was.
ReadOnlyStep ==
  /\ cur'.op \in {"retrieve", "deserialize"} => ar' = ar
  /\ (cur'.op \in {"serialize", "store"} /\ stack' # << >>) => stack'[1].obj = arg'
  /\ cur.status = "running" => arg' = arg
  /\ \A i \in 1..MinLen :
       /\ stack[i].fn = "serialize" => stack'[i].obj = stack[i].obj
       /\ stack[i].fn = "deserialize" => stack'[i].archive = stack[i].archive

C10_ReadOnly == [][ReadOnlyStep]_vars

C10_Witness ==
  /\ Over("retrieve") /\ cur.status = "threw" /\ cur.err = "missing key"
  /\ Keys(ar) # {} /\ ~HasKey(ar, cur.name)
====
